---- MODULE Spec2Model ----
(***************************************************************************)
(* run_dynamodblocal (src/lib/run_dynamodblocal/__init__.py) as a state    *)
(* machine.                                                                *)
(*                                                                         *)
(*   in_subprocess        the Service Supervisor: port probing, Popen,     *)
(*                        the 100 ms startup check, the scope body, the    *)
(*                        teardown (terminate, wait, kill on interrupt)    *)
(*   patched_into_boto3   the Client Interception Layer, built on          *)
(*                        in_subprocess and the boto3_mocking registry     *)
(*   LocalTableBuilder,   the Table Provisioner: recreate_through and      *)
(*   LocalDbOps           fresh_test_tables against a DynamoDB instance    *)
(*                                                                         *)
(* The Python code is single-threaded and synchronous: one action is the   *)
(* code that runs between two blocking points (a connect, a wait on the    *)
(* child process, the caller's scope body).  The child process and         *)
(* KeyboardInterrupt are the environment: the child may start listening    *)
(* or exit at any moment, and KeyboardInterrupt is delivered inside the    *)
(* scope body or while the code is blocked in a wait on a child that is    *)
(* still running (a wait on a child that has exited returns at once).      *)
(* Calls made inside one action are recorded, in code order, in the        *)
(* sequence `calls` (supervisor) or `ddbCalls` (table provisioner).        *)
(***************************************************************************)
EXTENDS Integers, Sequences, FiniteSets, TLC

(***************************************************************************)
(* Bounds of the model.                                                    *)
(***************************************************************************)
\* length of the default port range; range(8100, 8500) has 400 ports
DefaultLen == 2
\* longest port range a caller supplies
MaxRange == 2
\* exit codes of the child process are 0 .. MaxExitCode
MaxExitCode == 1
\* longest `resources.Resources` mapping of a serverless description
MaxRes == 2
\* most rows in one fixture_data dictionary (all tables together)
MaxRows == 2
\* most handle requests answered by on_server_missing within one scope
MaxRequests == 2
\* latest delete_table / create_table call of one recreate_through that the
\* service may fail
MaxFailAt == 3

\* first port of the default range, range(8100, 8500)
DefaultFirst == 8100
\* `port = None` after a probe that was not refused
PortNone == -1
\* the loop variable `port` before the first iteration binds it
PortUnbound == -2

\* the ports of the model: the default range and one port past it
Ports == DefaultFirst .. (DefaultFirst + DefaultLen)
DefaultRange == [i \in 1 .. DefaultLen |-> DefaultFirst + i - 1]

Elems(s) == {s[i] : i \in 1 .. Len(s)}
SeqsUpTo(S, n) == UNION {[1 .. k -> S] : k \in 0 .. n}
InjSeqsUpTo(S, n) == {s \in SeqsUpTo(S, n) : Cardinality(Elems(s)) = Len(s)}

(***************************************************************************)
(* State.                                                                  *)
(***************************************************************************)
VARIABLES
    \* ---- in_subprocess / patched_into_boto3
    mode,        \* who entered: "direct" (in_subprocess used by the caller),
                 \* "patched" (patched_into_boto3 with a path), "missing"
                 \* (patched_into_boto3 with on_server_missing only)
    pc,          \* "idle", "probe", "startup_wait", "body", "teardown_wait", "done"
    port_range,  \* the argument: [kind, ports]
    eff_range,   \* `port_range or range(8100, 8500)`: [kind, ports]
    idx,         \* position of the for loop in eff_range.ports
    port,        \* the loop variable
    net,         \* what listens on each port besides our child: free / busy / slow
    probes,      \* ports probed so far with the outcome of each, in order
    db_server,   \* the child process (Popen object and the OS process behind it)
    yielded,     \* the scope value, PortNone while nothing was yielded
    bodyExc,     \* how the scope body ended: "none", "BodyError", "KeyboardInterrupt"
    outcome,     \* how the context manager ended; "none" while it runs
    errInfo,     \* what the raised exception carries (exit code, range)
    calls,       \* calls made by the current invocation (on the child, the handler
                 \* registry, on_server_missing), in order
    okStreak,    \* earlier invocations that ended without error, in succession (2 = two or more)
    engaged,     \* boto3_mocking.patching_engaged()
    registry,    \* the handlers boto3_mocking holds for 'dynamodb'
    dynamodblocal_path, \* the argument of patched_into_boto3: "None" or "path"
    on_server_missing, \* the argument: "None", a callable that "returns" or one that "raises"
    lastHandle,  \* result of the latest boto3.client / boto3.resource request
                 \* (dropped when a scope is entered or its body ends)
    \* ---- LocalTableBuilder / LocalDbOps
    resources,   \* LocalTableBuilder._resources.values(), in mapping order
    client,      \* the client handed to recreate_through: [url, target]
    db,          \* the tables of the DynamoDB instance the client talks to
    op,          \* the latest operation: "none", "recreate_through", "fresh_test_tables", "test_write"
    fixture_data,\* the fixture_data argument of the latest fresh_test_tables
    existing_tables, \* the list recreate_through fetched
    ddbCalls,    \* the client calls of the latest operation, in order
    tOutcome,    \* how the latest operation ended
    rowsBefore,  \* whether a table of the schema held rows when the latest operation began
    \* ---- in_subprocess entered by several test runs at once
    scopes       \* for each test run, where its in_subprocess stands and its child

supVars == <<mode, pc, port_range, eff_range, idx, port, net, probes, db_server,
             yielded, bodyExc, outcome, errInfo, calls, okStreak>>
patchVars == <<engaged, registry, dynamodblocal_path, on_server_missing, lastHandle>>
tblVars == <<resources, client, db, op, fixture_data, existing_tables, ddbCalls, tOutcome,
            rowsBefore>>
conVars == <<scopes>>
vars == <<supVars, patchVars, tblVars, conVars>>

(***************************************************************************)
(* in_subprocess: inputs and helpers.                                      *)
(***************************************************************************)
\* port_range: None, a sequence (list, tuple, range) or a one-shot iterator
PortRangeInputs ==
    {[kind |-> "None", ports |-> <<>>]}
    \cup {[kind |-> k, ports |-> s] : k \in {"list", "iter"}, s \in InjSeqsUpTo(Ports, MaxRange)}

\* Python truth value of port_range: None and empty sequences are false,
\* an iterator object is always true
Truthy(pr) == pr.kind = "iter" \/ (pr.kind = "list" /\ Len(pr.ports) > 0)

\* line 41: port_range = port_range or range(8100, 8500)
EffectiveRange(pr) == IF Truthy(pr) THEN pr ELSE [kind |-> "list", ports |-> DefaultRange]

Status == {"free", "busy", "slow"}
\* the environments that differ on the ports the invocation can probe
NetsFor(pr) ==
    {[p \in Ports |-> IF p \in DOMAIN f THEN f[p] ELSE "free"] :
        f \in [Elems(EffectiveRange(pr).ports) -> Status]}

\* line 44: socket.create_connection(('localhost', p), 0.001)
Connect(n, p) ==
    CASE n[p] = "free" -> "ConnectionRefusedError"
      [] n[p] = "busy" -> "connected"
      [] OTHER         -> "timeout"

NoProc == [state |-> "none", port |-> PortNone, code |-> 0, listening |-> FALSE,
           sigs |-> <<>>, exitedIn |-> "none"]

\* lines 54-58: Popen(['java', ..., '-port', str(p)], cwd=..., stdout=PIPE)
Popen(p) == [state |-> "running", port |-> p, code |-> 0, listening |-> FALSE,
             sigs |-> <<>>, exitedIn |-> "none"]

\* Popen.send_signal: nothing is sent to a child that has already exited
SendSignal(pr, sig) == IF pr.state = "running" THEN [pr EXCEPT !.sigs = Append(@, sig)] ELSE pr

NoRegistry == [kind |-> "none", port |-> PortNone]
NoHandle == [via |-> "none", kind |-> "none", args |-> <<>>, active |-> FALSE]

(***************************************************************************)
(* Initial state.                                                          *)
(***************************************************************************)
InitSup ==
    /\ mode = "direct"
    /\ pc = "idle"
    /\ port_range = [kind |-> "None", ports |-> <<>>]
    /\ eff_range = [kind |-> "None", ports |-> <<>>]
    /\ idx = 1
    /\ port = PortUnbound
    /\ net = [p \in Ports |-> "free"]
    /\ probes = <<>>
    /\ db_server = NoProc
    /\ yielded = PortNone
    /\ bodyExc = "none"
    /\ outcome = "none"
    /\ errInfo = <<>>
    /\ calls = <<>>
    /\ okStreak = 0

InitPatch ==
    /\ engaged = FALSE
    /\ registry = NoRegistry
    /\ dynamodblocal_path = "None"
    /\ on_server_missing = "None"
    /\ lastHandle = NoHandle

InitTblIdle ==
    /\ resources = <<>>
    /\ client = [url |-> <<>>, target |-> "localhost"]
    /\ db = [n \in {"Users", "Orders"} |->
               [exists |-> FALSE, props |-> [TableName |-> "", KeySchema |-> ""], items |-> {}]]
    /\ op = "none"
    /\ fixture_data = [given |-> FALSE, dict |-> <<>>]
    /\ existing_tables = {}
    /\ ddbCalls = <<>>
    /\ tOutcome = "none"
    /\ rowsBefore = FALSE

\* the test runs (processes) that use in_subprocess at the same time
TestRuns == {"A", "B"}
\* a test run outside in_subprocess: `todo` is what the for loop of line 42
\* has still to visit, `child` the state of its Popen child
IdleScope == [pc |-> "idle", todo |-> <<>>, port |-> PortUnbound, child |-> "none",
              listening |-> FALSE, sigs |-> <<>>, yielded |-> PortNone, outcome |-> "none"]
InitScopes == scopes = [r \in TestRuns |-> IdleScope]

(***************************************************************************)
(* in_subprocess, lines 41-83.                                             *)
(***************************************************************************)
\* the state a new invocation starts from (the previous one's record is dropped)
Begin(m, pr, n) ==
    /\ mode' = m
    /\ port_range' = pr
    /\ eff_range' = EffectiveRange(pr)
    /\ net' = n
    /\ idx' = 1
    /\ port' = PortUnbound
    /\ probes' = <<>>
    /\ db_server' = NoProc
    /\ yielded' = PortNone
    /\ bodyExc' = "none"
    /\ UNCHANGED okStreak
    \* lines 42, 49: a loop that runs no iteration leaves `port` unbound, and
    \* `if port is None` raises UnboundLocalError
    /\ IF Len(EffectiveRange(pr).ports) = 0
       THEN /\ pc' = "done"
            /\ outcome' = "UnboundLocalError"
            /\ errInfo' = <<>>
            /\ calls' = <<"raise">>
       ELSE /\ pc' = "probe"
            /\ outcome' = "none"
            /\ errInfo' = <<>>
            /\ calls' = <<>>

\* with in_subprocess(path, port_range=pr): the caller enters the scope
Enter ==
    /\ pc = "idle"
    /\ \E pr \in PortRangeInputs : \E n \in NetsFor(pr) : Begin("direct", pr, n)
    /\ UNCHANGED <<patchVars, tblVars, conVars>>

\* lines 42-65: one iteration of the probe loop and what follows it without blocking
ProbeCode(p, r) ==
    /\ probes' = Append(probes, <<p, r>>)
    /\ IF r = "ConnectionRefusedError"
       THEN \* break; Popen; then blocked in wait(timeout=0.1)
            /\ port' = p
            /\ idx' = idx
            /\ db_server' = Popen(p)
            /\ calls' = Append(calls, "Popen")
            /\ pc' = "startup_wait"
            /\ UNCHANGED <<outcome, errInfo>>
       ELSE IF r = "connected"
       THEN \* .close(); port = None; next iteration, or the loop ends
            /\ port' = PortNone
            /\ idx' = idx + 1
            /\ UNCHANGED db_server
            /\ IF idx = Len(eff_range.ports)
               THEN /\ pc' = "done"
                    /\ outcome' = "NoPortAvailable"
                    /\ errInfo' = <<eff_range>>
                    /\ calls' = Append(calls, "raise")
               ELSE /\ pc' = "probe"
                    /\ UNCHANGED <<outcome, errInfo, calls>>
       ELSE \* any other exception of create_connection leaves in_subprocess
            /\ UNCHANGED <<port, idx, db_server>>
            /\ pc' = "done"
            /\ outcome' = r
            /\ errInfo' = <<>>
            /\ calls' = Append(calls, "raise")

Probe ==
    /\ pc = "probe"
    /\ ProbeCode(eff_range.ports[idx], Connect(net, eff_range.ports[idx]))
    /\ UNCHANGED <<mode, port_range, eff_range, net, yielded, bodyExc, okStreak>>
    /\ UNCHANGED <<patchVars, tblVars, conVars>>

(***************************************************************************)
(* The child process (environment).                                        *)
(***************************************************************************)
\* DynamoDBLocal binds its -port; it can when nothing else holds the port
ProcListen ==
    /\ db_server.state = "running"
    /\ ~db_server.listening
    /\ net[db_server.port] = "free"
    /\ db_server' = [db_server EXCEPT !.listening = TRUE]
    /\ UNCHANGED <<mode, pc, port_range, eff_range, idx, port, net, probes, yielded,
                   bodyExc, outcome, errInfo, calls, okStreak>>
    /\ UNCHANGED <<patchVars, tblVars, conVars>>

\* the child exits: by itself (bad jar, port taken, crash) or after a signal
ProcExit ==
    /\ db_server.state = "running"
    /\ \E c \in 0 .. MaxExitCode :
         db_server' = [db_server EXCEPT !.state = "exited", !.code = c,
                                        !.listening = FALSE, !.exitedIn = pc]
    /\ UNCHANGED <<mode, pc, port_range, eff_range, idx, port, net, probes, yielded,
                   bodyExc, outcome, errInfo, calls, okStreak>>
    /\ UNCHANGED <<patchVars, tblVars, conVars>>

(***************************************************************************)
(* Endpoint configuration and the boto3_mocking handlers.                  *)
(***************************************************************************)
DigitChar == <<"0", "1", "2", "3", "4", "5", "6", "7", "8", "9">>
RECURSIVE Str(_)
\* str(port): the decimal digits of a non-negative integer
Str(n) == IF n < 10 THEN <<DigitChar[n + 1]>> ELSE Str(n \div 10) \o <<DigitChar[(n % 10) + 1]>>

\* f"http://localhost:{port}"
LocalUrl(p) == <<"http://localhost:">> \o Str(p)

\* lines 120-123: endpoint_kwargs
EndpointKwargs(p) == [endpoint_url |-> LocalUrl(p), use_ssl |-> "False"]

\* a slip: dict(endpoint_kwargs, **kwargs), the caller's arguments winning
DictMerge_CallerWins(kwargs, over) ==
    [k \in DOMAIN kwargs \cup DOMAIN over |-> IF k \in DOMAIN kwargs THEN kwargs[k] ELSE over[k]]

\* dict(kwargs, **endpoint_kwargs): the keys of both, endpoint_kwargs winning
DictMerge(kwargs, over) ==
    [k \in DOMAIN kwargs \cup DOMAIN over |-> IF k \in DOMAIN over THEN over[k] ELSE kwargs[k]]

\* lines 125-135: mock_client / mock_resource, closures over endpoint_kwargs
MockReal(kind, kwargs, p) ==
    [via |-> "real", kind |-> kind, args |-> DictMerge(kwargs, EndpointKwargs(p)), active |-> FALSE]

\* a slip: mock_handler answers with a handle of its own, whatever the callback did
MockHandler_Ignored(kind, kwargs, h) ==
    [via |-> "boto3", kind |-> kind, args |-> <<>>, active |-> FALSE]

\* lines 147-148: mock_handler calls on_server_missing() and returns what it returns
MockHandler(kind, kwargs, h) ==
    [via |-> IF h = "raises" THEN "on_server_missing raised" ELSE "on_server_missing returned",
     kind |-> kind, args |-> <<>>, active |-> FALSE]

\* lines 137-143: with ExitStack() as db_ctx: boto3_mocking.enter_handlers(db_ctx, 'dynamodb', ...)
EnterHandlers(kind, p) == [kind |-> kind, port |-> p]

(***************************************************************************)
(* in_subprocess, lines 61-73: the startup check and the yield.            *)
(***************************************************************************)
\* a slip: the returned code is dropped and the port is yielded all the same
StartupExitedCode_Swallowed(srv) ==
    /\ pc' = "body"
    /\ yielded' = srv.port
    /\ calls' = calls \o <<"wait(0.1)", "yield">>
    /\ UNCHANGED <<outcome, errInfo, registry>>

\* line 62 returned a code within the 100 ms: line 63 raises
StartupExitedCode(srv) ==
    /\ pc' = "done"
    /\ outcome' = "ServiceStartupFailed"
    /\ errInfo' = <<srv.code>>
    /\ calls' = calls \o <<"wait(0.1)", "raise">>
    /\ UNCHANGED <<yielded, registry>>

StartupExited ==
    /\ pc = "startup_wait"
    /\ db_server.state = "exited"
    /\ StartupExitedCode(db_server)
    /\ UNCHANGED <<mode, port_range, eff_range, idx, port, net, probes, db_server,
                   bodyExc, okStreak>>
    /\ UNCHANGED <<engaged, dynamodblocal_path, on_server_missing, lastHandle, tblVars, conVars>>

\* line 64: TimeoutExpired, the child still runs; line 73 yields the port.
\* Under patched_into_boto3 (lines 119-144) the handlers are registered next
\* and the caller's body runs inside both scopes.
StartupTimeoutCode(m, p) ==
    /\ pc' = "body"
    /\ yielded' = p
    /\ IF m = "patched"
       THEN /\ registry' = EnterHandlers("real", p)
            /\ calls' = calls \o <<"wait(0.1)", "yield", "enter_handlers", "yield">>
       ELSE /\ UNCHANGED registry
            /\ calls' = calls \o <<"wait(0.1)", "yield">>
    /\ UNCHANGED <<outcome, errInfo>>

\* a slip: the port is yielded without looking at the child
StartupTimeout_Unchecked ==
    /\ pc = "startup_wait"
    /\ StartupTimeoutCode(mode, port)
    /\ UNCHANGED <<mode, port_range, eff_range, idx, port, net, probes, db_server,
                   bodyExc, okStreak>>
    /\ UNCHANGED <<engaged, dynamodblocal_path, on_server_missing, lastHandle, tblVars, conVars>>

StartupTimeout ==
    /\ pc = "startup_wait"
    /\ db_server.state = "running"
    /\ StartupTimeoutCode(mode, port)
    /\ UNCHANGED <<mode, port_range, eff_range, idx, port, net, probes, db_server,
                   bodyExc, okStreak>>
    /\ UNCHANGED <<engaged, dynamodblocal_path, on_server_missing, lastHandle, tblVars, conVars>>

\* KeyboardInterrupt while blocked in line 62: not a TimeoutExpired, it leaves
\* in_subprocess from outside any try ... finally
StartupInterrupted ==
    /\ pc = "startup_wait"
    /\ db_server.state = "running"
    /\ pc' = "done"
    /\ outcome' = "KeyboardInterrupt"
    /\ errInfo' = <<>>
    /\ calls' = calls \o <<"wait(0.1)", "raise">>
    /\ UNCHANGED <<mode, port_range, eff_range, idx, port, net, probes, db_server,
                   yielded, bodyExc, okStreak>>
    /\ UNCHANGED <<patchVars, tblVars, conVars>>

(***************************************************************************)
(* in_subprocess, lines 74-83: teardown.                                   *)
(***************************************************************************)
BodyEnds == {"none", "BodyError", "KeyboardInterrupt"}

\* a slip: the finally clause waits without calling terminate()
BodyExitCode_NoTerminate(m, e) ==
    /\ bodyExc' = e
    /\ registry' = IF m = "direct" THEN registry ELSE NoRegistry
    /\ pc' = IF m = "missing" THEN "done" ELSE "teardown_wait"
    /\ outcome' = IF m = "missing" THEN (IF e = "none" THEN "ok" ELSE e) ELSE outcome
    /\ calls' = calls \o (IF m = "direct" THEN <<>> ELSE <<"exit_handlers">>)
    /\ UNCHANGED db_server

\* a slip: the child is terminated first and the handlers are removed after it
BodyExitCode_TerminateFirst(m, e) ==
    /\ bodyExc' = e
    /\ IF m = "missing"
       THEN /\ registry' = NoRegistry
            /\ pc' = "done"
            /\ outcome' = IF e = "none" THEN "ok" ELSE e
            /\ calls' = calls \o <<"exit_handlers">> \o (IF e = "none" THEN <<>> ELSE <<"raise">>)
            /\ UNCHANGED db_server
       ELSE /\ registry' = IF m = "patched" THEN NoRegistry ELSE registry
            /\ pc' = "teardown_wait"
            /\ db_server' = SendSignal(db_server, "SIGTERM")
            /\ calls' = calls \o <<"terminate">>
                              \o (IF m = "patched" THEN <<"exit_handlers">> ELSE <<>>)
            /\ UNCHANGED outcome

\* the body ends (returns or raises e); ExitStack.__exit__ removes the handlers
\* (patched), then the finally clause: terminate(), then blocked in wait()
BodyExitCode(m, e) ==
    /\ bodyExc' = e
    /\ IF m = "missing"
       THEN /\ registry' = NoRegistry
            /\ pc' = "done"
            /\ outcome' = IF e = "none" THEN "ok" ELSE e
            /\ calls' = calls \o <<"exit_handlers">> \o (IF e = "none" THEN <<>> ELSE <<"raise">>)
            /\ UNCHANGED db_server
       ELSE /\ registry' = IF m = "patched" THEN NoRegistry ELSE registry
            /\ pc' = "teardown_wait"
            /\ db_server' = SendSignal(db_server, "SIGTERM")
            /\ calls' = calls \o (IF m = "patched" THEN <<"exit_handlers">> ELSE <<>>)
                              \o <<"terminate">>
            /\ UNCHANGED outcome

BodyExit ==
    /\ pc = "body"
    /\ \E e \in BodyEnds : BodyExitCode(mode, e)
    /\ lastHandle' = NoHandle
    /\ UNCHANGED <<mode, port_range, eff_range, idx, port, net, probes, yielded,
                   errInfo, okStreak>>
    /\ UNCHANGED <<engaged, dynamodblocal_path, on_server_missing, tblVars, conVars>>

\* line 78 returned: the child has exited; the body's exception, if any, goes on
TeardownWaitedCode(e) ==
    /\ pc' = "done"
    /\ outcome' = IF e = "none" THEN "ok" ELSE e
    /\ calls' = calls \o <<"wait">> \o (IF e = "none" THEN <<>> ELSE <<"raise">>)
    /\ UNCHANGED db_server

TeardownWaited ==
    /\ pc = "teardown_wait"
    /\ db_server.state = "exited"
    /\ TeardownWaitedCode(bodyExc)
    /\ UNCHANGED <<mode, port_range, eff_range, idx, port, net, probes, yielded,
                   bodyExc, errInfo, okStreak>>
    /\ UNCHANGED <<patchVars, tblVars, conVars>>

\* a slip: the interrupt is re-raised without the kill
TeardownInterruptedCode_NoKill(srv) ==
    /\ pc' = "done"
    /\ db_server' = srv
    /\ outcome' = "KeyboardInterrupt"
    /\ calls' = calls \o <<"wait", "raise">>

\* lines 80-83: KeyboardInterrupt while blocked in line 78: kill(), then raise
TeardownInterruptedCode(srv) ==
    /\ pc' = "done"
    /\ db_server' = SendSignal(srv, "SIGKILL")
    /\ outcome' = "KeyboardInterrupt"
    /\ calls' = calls \o <<"wait", "kill", "raise">>

TeardownInterrupted ==
    /\ pc = "teardown_wait"
    /\ db_server.state = "running"
    /\ TeardownInterruptedCode(db_server)
    /\ UNCHANGED <<mode, port_range, eff_range, idx, port, net, probes, yielded,
                   bodyExc, errInfo, okStreak>>
    /\ UNCHANGED <<patchVars, tblVars, conVars>>

\* the with statement is over and the caller goes on; its record is dropped
Leave ==
    /\ pc = "done"
    /\ pc' = "idle"
    /\ okStreak' = IF outcome = "ok" THEN (IF okStreak < 2 THEN okStreak + 1 ELSE 2) ELSE 0
    /\ mode' = "direct"
    /\ port_range' = [kind |-> "None", ports |-> <<>>]
    /\ eff_range' = [kind |-> "None", ports |-> <<>>]
    /\ idx' = 1
    /\ port' = PortUnbound
    /\ net' = [p \in Ports |-> "free"]
    /\ probes' = <<>>
    /\ db_server' = NoProc
    /\ yielded' = PortNone
    /\ bodyExc' = "none"
    /\ outcome' = "none"
    /\ errInfo' = <<>>
    /\ calls' = <<>>
    /\ dynamodblocal_path' = "None"
    /\ on_server_missing' = "None"
    /\ lastHandle' = NoHandle
    /\ UNCHANGED <<engaged, registry, tblVars, conVars>>

(***************************************************************************)
(* patched_into_boto3, lines 110-156, and the requests for handles.        *)
(***************************************************************************)
\* a slip: patching_engaged() is not looked at
PatchedEnterCode_EngagedUnchecked(path, pr, n, h) ==
    /\ dynamodblocal_path' = path
    /\ on_server_missing' = h
    /\ IF path = "None" /\ h = "None"
       THEN /\ pc' = "done"
            /\ outcome' = "NoServiceConfigured"
            /\ calls' = <<"raise">>
            /\ mode' = "patched"
            /\ UNCHANGED <<port_range, eff_range, idx, port, net, probes, db_server,
                           yielded, bodyExc, errInfo, okStreak, registry>>
       ELSE IF path # "None"
       THEN /\ Begin("patched", pr, n)
            /\ UNCHANGED registry
       ELSE /\ pc' = "body"
            /\ mode' = "missing"
            /\ registry' = EnterHandlers("missing", PortNone)
            /\ calls' = <<"enter_handlers", "yield">>
            /\ UNCHANGED <<port_range, eff_range, idx, port, net, probes, db_server,
                           yielded, bodyExc, outcome, errInfo, okStreak>>

\* a slip: the test of lines 115-116 is left out
PatchedEnterCode_ConfigUnchecked(path, pr, n, h) ==
    /\ dynamodblocal_path' = path
    /\ on_server_missing' = h
    /\ IF ~engaged
       THEN /\ pc' = "done"
            /\ outcome' = "PatchingNotEngaged"
            /\ calls' = <<"raise">>
            /\ mode' = "patched"
            /\ UNCHANGED <<port_range, eff_range, idx, port, net, probes, db_server,
                           yielded, bodyExc, errInfo, okStreak, registry>>
       ELSE IF path # "None"
       THEN /\ Begin("patched", pr, n)
            /\ UNCHANGED registry
       ELSE /\ pc' = "body"
            /\ mode' = "missing"
            /\ registry' = EnterHandlers("missing", PortNone)
            /\ calls' = <<"enter_handlers", "yield">>
            /\ UNCHANGED <<port_range, eff_range, idx, port, net, probes, db_server,
                           yielded, bodyExc, outcome, errInfo, okStreak>>

\* lines 112-156 up to the first blocking point
PatchedEnterCode(path, pr, n, h) ==
    /\ dynamodblocal_path' = path
    /\ on_server_missing' = h
    /\ IF ~engaged
       THEN \* lines 112-113
            /\ pc' = "done"
            /\ outcome' = "PatchingNotEngaged"
            /\ calls' = <<"raise">>
            /\ mode' = "patched"
            /\ UNCHANGED <<port_range, eff_range, idx, port, net, probes, db_server,
                           yielded, bodyExc, errInfo, okStreak, registry>>
       ELSE IF path = "None" /\ h = "None"
       THEN \* lines 115-116
            /\ pc' = "done"
            /\ outcome' = "NoServiceConfigured"
            /\ calls' = <<"raise">>
            /\ mode' = "patched"
            /\ UNCHANGED <<port_range, eff_range, idx, port, net, probes, db_server,
                           yielded, bodyExc, errInfo, okStreak, registry>>
       ELSE IF path # "None"
       THEN \* line 119: with in_subprocess(dynamodblocal_path, port_range=port_range)
            /\ Begin("patched", pr, n)
            /\ UNCHANGED registry
       ELSE \* lines 147-156: the handlers call on_server_missing
            /\ pc' = "body"
            /\ mode' = "missing"
            /\ registry' = EnterHandlers("missing", PortNone)
            /\ calls' = <<"enter_handlers", "yield">>
            /\ UNCHANGED <<port_range, eff_range, idx, port, net, probes, db_server,
                           yielded, bodyExc, outcome, errInfo, okStreak>>

PatchedEnter ==
    /\ pc = "idle"
    /\ \E path \in {"None", "path"}, h \in {"None", "returns", "raises"} :
         \E pr \in PortRangeInputs : \E n \in NetsFor(pr) :
            \* what is not read is left at one value: the state of the ports when
            \* nothing is probed, port_range when there is no path, the handler
            \* when there is a path
            /\ (path = "None" \/ ~engaged) => n = [p \in Ports |-> "free"]
            /\ (path = "None" /\ engaged) => pr.kind = "None"
            /\ (path # "None" /\ engaged) => h = "None"
            /\ PatchedEnterCode(path, pr, n, h)
    /\ lastHandle' = NoHandle
    /\ UNCHANGED <<engaged, tblVars, conVars>>

\* the harness calls boto3_mocking.engage_patching()
EngagePatching ==
    /\ pc = "idle"
    /\ ~engaged
    /\ engaged' = TRUE
    /\ UNCHANGED <<supVars, registry, dynamodblocal_path, on_server_missing, lastHandle, tblVars, conVars>>

RemoteUrl == <<"https://dynamodb.us-east-1.amazonaws.com">>
CallerValue == [endpoint_url |-> RemoteUrl, use_ssl |-> "True", region_name |-> "us-east-1"]
\* the keyword arguments a caller gives boto3.client('dynamodb', **kwargs)
Kwargs == {[k \in K |-> CallerValue[k]] : K \in SUBSET {"endpoint_url", "use_ssl", "region_name"}}

\* boto3.client('dynamodb', **kwargs) / boto3.resource('dynamodb', **kwargs) with
\* patching engaged: the registered handler answers, else boto3 itself
HandleFor(reg, kind, kwargs) ==
    IF engaged /\ reg.kind = "real" THEN MockReal(kind, kwargs, reg.port)
    ELSE IF engaged /\ reg.kind = "missing" THEN MockHandler(kind, kwargs, on_server_missing)
    ELSE [via |-> "boto3", kind |-> kind, args |-> kwargs, active |-> FALSE]

\* line 148: the call of on_server_missing() a request makes when mock_handler answers it
HandlerCalls(reg) == IF engaged /\ reg.kind = "missing" THEN <<"on_server_missing">> ELSE <<>>
\* how often e is in the sequence c
Count(c, e) == Cardinality({i \in 1 .. Len(c) : c[i] = e})

\* any code of the process asks for a handle: in the body of the scope, or
\* outside the scope (before it is entered, after it was left)
RequestHandle ==
    /\ pc \in {"idle", "body"}
    /\ Count(calls, "on_server_missing") < MaxRequests
    /\ \E kind \in {"client", "resource"}, kwargs \in Kwargs :
         lastHandle' = [HandleFor(registry, kind, kwargs) EXCEPT !.active = (pc = "body")]
    /\ calls' = calls \o HandlerCalls(registry)
    /\ UNCHANGED <<mode, pc, port_range, eff_range, idx, port, net, probes, db_server,
                   yielded, bodyExc, outcome, errInfo, okStreak>>
    /\ UNCHANGED <<engaged, registry, dynamodblocal_path, on_server_missing, tblVars, conVars>>

NextSup ==
    \/ Enter
    \/ Leave
    \/ Probe
    \/ ProcListen
    \/ ProcExit
    \/ StartupExited
    \/ StartupTimeout
    \/ StartupInterrupted
    \/ BodyExit
    \/ TeardownWaited
    \/ TeardownInterrupted

Init == InitSup /\ InitPatch /\ InitTblIdle /\ InitScopes

Spec == Init /\ [][NextSup]_vars

NextPatched ==
    \/ EngagePatching
    \/ PatchedEnter
    \/ Leave
    \/ RequestHandle
    \/ Probe
    \/ ProcListen
    \/ ProcExit
    \/ StartupExited
    \/ StartupTimeout
    \/ StartupInterrupted
    \/ BodyExit
    \/ TeardownWaited
    \/ TeardownInterrupted

SpecPatched == Init /\ [][NextPatched]_vars

(***************************************************************************)
(* in_subprocess entered by two test runs at the same time, lines 41-83.   *)
(* Each run is a process of its own; they share the ports of the host.     *)
(* Nothing but their children listens on the ports, and no run is          *)
(* interrupted (for KeyboardInterrupt see Spec).                           *)
(***************************************************************************)
\* the port_range arguments: non-empty lists over the same ports
ScopeRanges == InjSeqsUpTo(Ports, MaxRange) \ {<<>>}

\* line 44 in a run: the connection is accepted when a child of some run
\* listens on the port, refused otherwise
ConnectShared(sc, p) ==
    IF \E r \in TestRuns : sc[r].child = "running" /\ sc[r].listening /\ sc[r].port = p
    THEN "connected"
    ELSE "ConnectionRefusedError"

\* run r enters in_subprocess(path, port_range=pr)
ScopeEnter(r) ==
    /\ scopes[r].pc = "idle"
    /\ \E pr \in ScopeRanges :
         scopes' = [scopes EXCEPT ![r] = [IdleScope EXCEPT !.pc = "probe", !.todo = pr]]
    /\ UNCHANGED <<supVars, patchVars, tblVars>>

\* lines 42-59 in run r: one iteration of the probe loop; on a refused
\* connection the loop is left and the child is launched on that port
ScopeProbe(r) ==
    /\ scopes[r].pc = "probe"
    /\ LET p == Head(scopes[r].todo)
       IN  IF ConnectShared(scopes, p) = "ConnectionRefusedError"
           THEN scopes' = [scopes EXCEPT ![r] = [@ EXCEPT !.pc = "startup_wait", !.todo = <<>>,
                                                         !.port = p, !.child = "running"]]
           ELSE IF Len(scopes[r].todo) = 1
           THEN scopes' = [scopes EXCEPT ![r] = [@ EXCEPT !.pc = "done", !.todo = <<>>,
                                                         !.port = PortNone,
                                                         !.outcome = "NoPortAvailable"]]
           ELSE scopes' = [scopes EXCEPT ![r] = [@ EXCEPT !.todo = Tail(@), !.port = PortNone]]
    /\ UNCHANGED <<supVars, patchVars, tblVars>>

\* the child of run r binds its -port: it can when no other child holds it
ScopeProcListen(r) ==
    /\ scopes[r].child = "running" /\ ~scopes[r].listening
    /\ ConnectShared(scopes, scopes[r].port) = "ConnectionRefusedError"
    /\ scopes' = [scopes EXCEPT ![r].listening = TRUE]
    /\ UNCHANGED <<supVars, patchVars, tblVars>>

\* the child of run r exits: by itself (its port is taken, a crash) or after a signal
ScopeProcExit(r) ==
    /\ scopes[r].child = "running"
    /\ scopes' = [scopes EXCEPT ![r].child = "exited", ![r].listening = FALSE]
    /\ UNCHANGED <<supVars, patchVars, tblVars>>

\* lines 62-63 in run r: the child has exited within the 100 ms
ScopeStartupExited(r) ==
    /\ scopes[r].pc = "startup_wait" /\ scopes[r].child = "exited"
    /\ scopes' = [scopes EXCEPT ![r].pc = "done", ![r].outcome = "ServiceStartupFailed"]
    /\ UNCHANGED <<supVars, patchVars, tblVars>>

\* lines 64-73 in run r: TimeoutExpired, the port is yielded
ScopeStartupTimeout(r) ==
    /\ scopes[r].pc = "startup_wait" /\ scopes[r].child = "running"
    /\ scopes' = [scopes EXCEPT ![r].pc = "body", ![r].yielded = scopes[r].port]
    /\ UNCHANGED <<supVars, patchVars, tblVars>>

\* lines 74-78 in run r: the body ends, terminate(), then blocked in wait()
ScopeBodyExit(r) ==
    /\ scopes[r].pc = "body"
    /\ scopes' = [scopes EXCEPT ![r].pc = "teardown_wait",
                                ![r].sigs = IF scopes[r].child = "running"
                                            THEN Append(@, "SIGTERM") ELSE @]
    /\ UNCHANGED <<supVars, patchVars, tblVars>>

\* line 78 in run r returned: the child has exited
ScopeTeardownWaited(r) ==
    /\ scopes[r].pc = "teardown_wait" /\ scopes[r].child = "exited"
    /\ scopes' = [scopes EXCEPT ![r].pc = "done", ![r].outcome = "ok"]
    /\ UNCHANGED <<supVars, patchVars, tblVars>>

\* the with statement of run r is over
ScopeLeave(r) ==
    /\ scopes[r].pc = "done"
    /\ scopes' = [scopes EXCEPT ![r] = IdleScope]
    /\ UNCHANGED <<supVars, patchVars, tblVars>>

NextConcurrent ==
    \E r \in TestRuns :
        \/ ScopeEnter(r)
        \/ ScopeProbe(r)
        \/ ScopeProcListen(r)
        \/ ScopeProcExit(r)
        \/ ScopeStartupExited(r)
        \/ ScopeStartupTimeout(r)
        \/ ScopeBodyExit(r)
        \/ ScopeTeardownWaited(r)
        \/ ScopeLeave(r)

SpecConcurrent == Init /\ [][NextConcurrent]_vars

(***************************************************************************)
(* LocalTableBuilder and LocalDbOps, lines 158-245.                        *)
(***************************************************************************)
TableNames == {"Users", "Orders"}
TableType == "AWS::DynamoDB::Table"

\* the entries a `resources.Resources` mapping is made of: two tables and a
\* resource of another type
ResourceDefs ==
    {[Type |-> TableType, Properties |-> [TableName |-> n, KeySchema |-> "id"]] : n \in TableNames}
    \cup {[Type |-> "AWS::SQS::Queue", Properties |-> [TableName |-> "Orders", KeySchema |-> "-"]]}

\* rows of fixture data; `id` is the key attribute of every table
Rows == {[id |-> "1", name |-> "Ann"], [id |-> "2", name |-> "Bob"]}

\* fixture_data: None, or a dict from table name to rows, in insertion order
FixtureDicts ==
    {f \in SeqsUpTo(TableNames \X SeqsUpTo(Rows, MaxRows), Cardinality(TableNames)) :
        /\ \A i, j \in 1 .. Len(f) : f[i][1] = f[j][1] => i = j
        /\ \A i, j \in 1 .. Len(f) : i # j => Len(f[i][2]) + Len(f[j][2]) <= MaxRows}
FixtureInputs == {[given |-> FALSE, dict |-> <<>>]} \cup {[given |-> TRUE, dict |-> f] : f \in FixtureDicts}

\* the clients a caller hands over: the endpoint_url text and the host the
\* client connects to
Clients ==
    { [url |-> LocalUrl(DefaultFirst), target |-> "localhost"],
      [url |-> <<"http://127.0.0.1:">> \o Str(DefaultFirst), target |-> "localhost"],
      [url |-> RemoteUrl, target |-> "dynamodb.us-east-1.amazonaws.com"],
      \* userinfo "localhost:1", host example.com
      [url |-> <<"http://localhost:", "1", "@example.com">>, target |-> "example.com"] }

\* str.startswith
StartsWith(text, prefix) ==
    Len(text) >= Len(prefix) /\ SubSeq(text, 1, Len(prefix)) = prefix

\* line 203: ddb.meta.endpoint_url.startswith('http://localhost:')
IsLocalEndpoint(cl) == StartsWith(cl.url, <<"http://localhost:">>)

NoProps == [TableName |-> "", KeySchema |-> ""]
Absent == [exists |-> FALSE, props |-> NoProps, items |-> {}]
Call(c, t, pr, rw) == [call |-> c, table |-> t, props |-> pr, rows |-> rw]

\* the DynamoDB service: list_tables, delete_table, create_table, BatchWriteItem
ListTables(d) == {n \in TableNames : d[n].exists}
DeleteTable(d, n) ==
    IF d[n].exists THEN [err |-> "none", db |-> [d EXCEPT ![n] = Absent]]
    ELSE [err |-> "ResourceNotFoundException", db |-> d]
CreateTable(d, pr) ==
    IF d[pr.TableName].exists THEN [err |-> "ResourceInUseException", db |-> d]
    ELSE [err |-> "none", db |-> [d EXCEPT ![pr.TableName] = [exists |-> TRUE, props |-> pr, items |-> {}]]]
\* a slip: rows for a table that is missing are dropped without an error
BatchWrite_Lenient(d, n, rw) ==
    IF ~d[n].exists THEN [err |-> "none", db |-> d]
    ELSE IF \E i, j \in 1 .. Len(rw) : i # j /\ rw[i].id = rw[j].id
    THEN [err |-> "ValidationException", db |-> d]
    ELSE [err |-> "none",
          db |-> [d EXCEPT ![n].items =
                    {it \in @ : \A i \in 1 .. Len(rw) : rw[i].id # it.id} \cup Elems(rw)]]

\* one request puts every row, replacing rows of the same key; it is
\* rejected when the table is missing or two of its rows share a key
BatchWrite(d, n, rw) ==
    IF ~d[n].exists THEN [err |-> "ResourceNotFoundException", db |-> d]
    ELSE IF \E i, j \in 1 .. Len(rw) : i # j /\ rw[i].id = rw[j].id
    THEN [err |-> "ValidationException", db |-> d]
    ELSE [err |-> "none",
          db |-> [d EXCEPT ![n].items =
                    {it \in @ : \A i \in 1 .. Len(rw) : rw[i].id # it.id} \cup Elems(rw)]]

\* a slip: the tables are told apart by nothing, every resource is one
IsTable_AnyType(r) == TRUE

\* lines 184-190: LocalTableBuilder.tables
IsTable(r) == r.Type = TableType
Tables(res) == SelectSeq(res, IsTable)

\* the TableName of every table definition
DefinedNames(res) == {Tables(res)[i].Properties.TableName : i \in 1 .. Len(Tables(res))}

\* the service answers a call: with an error of its own (it is down, it
\* throttles) when `fails`, else with the answer r; d is the state it keeps then
Service(fails, d, r) == IF fails THEN [err |-> "ServiceError", db |-> d] ELSE r

\* the points at which the service fails: the f-th delete_table / create_table
\* call of a recreate_through, never when f = 0
FailPoints == 0 .. MaxFailAt

\* a slip: the name is looked up among the tables present now, not in the fetched list
RecreateOne_LiveLookup(t, existing, st) ==
    LET n == t.Properties.TableName
        live == n \in ListTables(st.db)
        del == IF live THEN Service(st.failAt = Len(st.calls), st.db, DeleteTable(st.db, n))
               ELSE [err |-> "none", db |-> st.db]
        c1 == IF live THEN Append(st.calls, Call("delete_table", n, NoProps, <<>>)) ELSE st.calls
        cre == Service(st.failAt = Len(c1), del.db, CreateTable(del.db, t.Properties))
    IN  IF del.err # "none"
        THEN [st EXCEPT !.db = del.db, !.calls = c1, !.outcome = del.err]
        ELSE [st EXCEPT !.db = cre.db,
                        !.calls = Append(c1, Call("create_table", n, t.Properties, <<>>)),
                        !.outcome = IF cre.err = "none" THEN "ok" ELSE cre.err]

\* lines 207-209: the body of the loop for one table definition t; st is
\* [db, calls, outcome, failAt]; the calls made so far are list_tables and
\* Len(st.calls) - 1 delete_table / create_table calls
RecreateOne(t, existing, st) ==
    LET n == t.Properties.TableName
        del == IF n \in existing
               THEN Service(st.failAt = Len(st.calls), st.db, DeleteTable(st.db, n))
               ELSE [err |-> "none", db |-> st.db]
        c1 == IF n \in existing THEN Append(st.calls, Call("delete_table", n, NoProps, <<>>))
              ELSE st.calls
        cre == Service(st.failAt = Len(c1), del.db, CreateTable(del.db, t.Properties))
    IN  IF del.err # "none"
        THEN [st EXCEPT !.db = del.db, !.calls = c1, !.outcome = del.err]
        ELSE [st EXCEPT !.db = cre.db,
                        !.calls = Append(c1, Call("create_table", n, t.Properties, <<>>)),
                        !.outcome = IF cre.err = "none" THEN "ok" ELSE cre.err]

RECURSIVE RecreateLoop_KeepsGoing(_, _, _, _)
\* a slip: a failure is kept for the end and the remaining definitions are
\* still recreated
RecreateLoop_KeepsGoing(ts, i, existing, st) ==
    IF i > Len(ts) THEN st
    ELSE LET r == RecreateOne(ts[i], existing, st)
         IN  RecreateLoop_KeepsGoing(ts, i + 1, existing,
                [r EXCEPT !.outcome = IF st.outcome # "ok" THEN st.outcome ELSE r.outcome])

RECURSIVE RecreateLoop(_, _, _, _)
\* line 206: for t in self.tables, from position i on; an exception ends it
RecreateLoop(ts, i, existing, st) ==
    IF i > Len(ts) \/ st.outcome # "ok" THEN st
    ELSE RecreateLoop(ts, i + 1, existing, RecreateOne(ts[i], existing, st))

\* lines 202-209: recreate_through(dynamodb_client), the service failing at f
RecreateThrough(res, cl, d, f) ==
    IF ~IsLocalEndpoint(cl)
    THEN [db |-> d, calls |-> <<>>, outcome |-> "AssertionError", existing |-> {}]
    ELSE LET existing == ListTables(d)
             r == RecreateLoop(Tables(res), 1, existing,
                      [db |-> d, calls |-> <<Call("list_tables", "", NoProps, <<>>)>>,
                       outcome |-> "ok", failAt |-> f])
         IN  [db |-> r.db, calls |-> r.calls, outcome |-> r.outcome, existing |-> existing]

RECURSIVE Populate(_, _, _)
\* lines 240-245: for table_name in (fixture_data or ()): the rows go through
\* table.batch_writer(), which sends what it holds when the with block ends
\* (nothing when it holds no row); st is [db, calls, outcome]
Populate(dict, i, st) ==
    IF i > Len(dict) \/ st.outcome # "ok" THEN st
    ELSE LET n == dict[i][1]
             rw == dict[i][2]
             w == BatchWrite(st.db, n, rw)
         IN  IF Len(rw) = 0 THEN Populate(dict, i + 1, st)
             ELSE Populate(dict, i + 1,
                    [db |-> w.db,
                     calls |-> Append(st.calls, Call("batch_write_item", n, NoProps, rw)),
                     outcome |-> IF w.err = "none" THEN "ok" ELSE w.err])

\* a slip: the rows are loaded without recreating the tables first
FreshTestTables_NoRecreate(res, cl, d, fx, f) ==
    LET q == Populate(IF fx.given THEN fx.dict ELSE <<>>, 1,
                      [db |-> d, calls |-> <<>>, outcome |-> "ok"])
    IN  [db |-> q.db, calls |-> q.calls, outcome |-> q.outcome, existing |-> {}]

\* lines 236-245: fresh_test_tables(dynamodb_resource, fixture_data)
FreshTestTables(res, cl, d, fx, f) ==
    LET r == RecreateThrough(res, cl, d, f)
    IN  IF r.outcome # "ok" THEN r
        ELSE LET q == Populate(IF fx.given THEN fx.dict ELSE <<>>, 1,
                               [db |-> r.db, calls |-> r.calls, outcome |-> "ok"])
             IN  [db |-> q.db, calls |-> q.calls, outcome |-> q.outcome, existing |-> r.existing]

NoFixture == [given |-> FALSE, dict |-> <<>>]

\* a LocalTableBuilder was made from a serverless description, and a client
\* of some DynamoDB instance is at hand
InitTbl ==
    /\ resources \in SeqsUpTo(ResourceDefs, MaxRes)
    /\ client \in Clients
    /\ \E ex \in SUBSET TableNames :
         db = [n \in TableNames |->
                 IF n \in ex
                 THEN [exists |-> TRUE, props |-> [TableName |-> n, KeySchema |-> "id"], items |-> {}]
                 ELSE Absent]
    /\ op = "none"
    /\ fixture_data = NoFixture
    /\ existing_tables = {}
    /\ ddbCalls = <<>>
    /\ tOutcome = "none"
    /\ rowsBefore = FALSE

Result(name, r, fx) ==
    /\ op' = name
    /\ fixture_data' = fx
    /\ db' = r.db
    /\ ddbCalls' = r.calls
    /\ existing_tables' = r.existing
    /\ tOutcome' = r.outcome
    /\ rowsBefore' = \E n \in DefinedNames(resources) : db[n].items # {}
    /\ UNCHANGED <<resources, client>>

\* builder.recreate_through(client)
RecreateThroughCall ==
    /\ op = "none"
    /\ \E f \in FailPoints :
         Result("recreate_through", RecreateThrough(resources, client, db, f), NoFixture)
    /\ UNCHANGED <<supVars, patchVars, conVars>>

\* ops.fresh_test_tables(resource, fixture_data)
FreshTestTablesCall ==
    /\ op = "none"
    /\ \E fx \in FixtureInputs, f \in FailPoints :
         Result("fresh_test_tables", FreshTestTables(resources, client, db, fx, f), fx)
    /\ UNCHANGED <<supVars, patchVars, conVars>>

\* a test case puts a row into a table of the local instance
TestWrite ==
    /\ op = "none"
    /\ client.target = "localhost" /\ IsLocalEndpoint(client)
    /\ \E n \in TableNames, it \in Rows :
         /\ db[n].exists
         /\ db' = BatchWrite(db, n, <<it>>).db
    /\ UNCHANGED <<resources, client, op, fixture_data, existing_tables, ddbCalls, tOutcome,
                   rowsBefore>>
    /\ UNCHANGED <<supVars, patchVars, conVars>>

\* the call is over: its caller goes on, the instance keeps its tables
Return ==
    /\ op # "none"
    /\ op' = "none"
    /\ fixture_data' = NoFixture
    /\ existing_tables' = {}
    /\ ddbCalls' = <<>>
    /\ tOutcome' = "none"
    /\ rowsBefore' = FALSE
    /\ UNCHANGED <<resources, client, db>>
    /\ UNCHANGED <<supVars, patchVars, conVars>>

NextTables ==
    \/ RecreateThroughCall
    \/ FreshTestTablesCall
    \/ TestWrite
    \/ Return

InitTables == InitSup /\ InitPatch /\ InitTbl /\ InitScopes

SpecTables == InitTables /\ [][NextTables]_vars

(***************************************************************************)
(* Properties of in_subprocess.                                            *)
(***************************************************************************)
Has(c, e) == \E i \in 1 .. Len(c) : c[i] = e
\* the last n entries of a sequence
LastN(c, n) == IF Len(c) < n THEN c ELSE SubSeq(c, Len(c) - n + 1, Len(c))
\* the scope body was entered: a port was yielded
Entered == yielded # PortNone
\* what leaves the with statement when the teardown wait returns
Propagated == IF bodyExc = "none" THEN "ok" ELSE bodyExc

\* C1 as claimed: once the scope has been exited, however the body ended, the
\* supervised process is no longer running (teardown waited for its exit).
C1_AsClaimed ==
    (pc = "done" /\ Entered) => db_server.state = "exited"

\* C1, amended: every exited scope has called terminate().  If the teardown
\* wait was not interrupted, the process has exited before control left the
\* scope and the body's exception (if any) is what propagates; if the wait was
\* interrupted by KeyboardInterrupt, the scope is left with KeyboardInterrupt
\* and the process has been sent SIGKILL but was not waited for.  This holds
\* for every entry, also the second of two in succession.
C1_ScopeExitReleasesProcess ==
    (pc \in {"teardown_wait", "done"} /\ Entered) =>
        /\ Has(calls, "terminate")
        /\ db_server.state = "running" => Has(db_server.sigs, "SIGTERM")
        /\ pc = "done" =>
             \/ /\ ~Has(calls, "kill")
                /\ db_server.state = "exited"
                /\ outcome = Propagated
             \/ /\ Has(calls, "kill")
                /\ outcome = "KeyboardInterrupt"
                /\ Has(db_server.sigs, "SIGKILL")

\* C1 witness: a second scope in succession was entered and exited without
\* error, its body having run, and its process has exited.
C1_Witness ==
    /\ pc = "done" /\ Entered /\ okStreak >= 1
    /\ outcome = "ok" /\ db_server.state = "exited"
    /\ db_server.exitedIn = "teardown_wait"

\* the first position of the range whose port refuses a connection, 0 if none
FirstRefused(r, n) ==
    IF \E i \in 1 .. Len(r) : Connect(n, r[i]) = "ConnectionRefusedError"
    THEN CHOOSE i \in 1 .. Len(r) :
            /\ Connect(n, r[i]) = "ConnectionRefusedError"
            /\ \A j \in 1 .. (i - 1) : Connect(n, r[j]) # "ConnectionRefusedError"
    ELSE 0

\* C2 as claimed: when the candidate range holds a port that refuses the
\* connection, the candidates up to the first such port are probed in range
\* order and no later one, the process is launched with that port as -port,
\* and the port yielded is that port.
C2_FirstRefusedPortSelected ==
    LET r == eff_range.ports
        k == FirstRefused(r, net)
    IN  (pc \notin {"idle", "probe"} /\ mode = "direct" /\ k > 0) =>
            /\ probes = [i \in 1 .. k |-> <<r[i], Connect(net, r[i])>>]
            /\ port = r[k]
            /\ db_server.state # "none"
            /\ db_server.port = r[k]
            /\ Entered => yielded = r[k]

\* C3 as claimed: while the scope body runs, the supervised service is
\* listening on the yielded port.
C3_AsClaimed ==
    pc = "body" => (db_server.state = "running" /\ db_server.listening)

\* C3, amended: while the scope body runs, the process was launched with the
\* yielded port as -port, had not exited when the 100 ms startup wait timed
\* out, and has been sent no signal by in_subprocess.  (Whether it listens
\* on the port, or still runs, is the child's business.)
C3_YieldedProcessPassedStartup ==
    (pc = "body" /\ mode # "missing") =>
        /\ Entered
        /\ db_server.state # "none"
        /\ db_server.port = yielded
        /\ db_server.exitedIn \notin {"startup_wait"}
        /\ db_server.sigs = <<>>
        /\ ~Has(calls, "terminate") /\ ~Has(calls, "kill")

\* C3 witness: the body runs while the process has not bound its port.
C3_Witness ==
    pc = "body" /\ db_server.state = "running" /\ ~db_server.listening

\* C8 as claimed: when every port of the supplied range is occupied (it
\* accepts the connection), in_subprocess fails with NoPortAvailable naming
\* that range, spawns no process and probes no port outside the range.
C8_OccupiedRangeFails ==
    (/\ pc # "idle" /\ mode = "direct"
     /\ port_range.kind # "None"
     /\ \A p \in Elems(port_range.ports) : Connect(net, p) = "connected") =>
        /\ db_server.state = "none"
        /\ \A i \in 1 .. Len(probes) : probes[i][1] \in Elems(port_range.ports)
        /\ pc = "done" => (outcome = "NoPortAvailable" /\ errInfo = <<port_range>>)

\* C9: control leaves the startup wait of a process that has exited only
\* by raising ServiceStartupFailed with the process's exit code: nothing is
\* yielded, the body never runs, no terminate or kill is called and no signal
\* is sent.  When the wait times out with the process still running, the
\* port given to the process is yielded and the body runs.  (A wait cut short
\* by KeyboardInterrupt neither returned a code nor timed out.)
C9_StartupVerification ==
    /\ [][(pc = "startup_wait" /\ pc' # "startup_wait") =>
            \/ /\ db_server.state = "exited"
               /\ pc' = "done"
               /\ outcome' = "ServiceStartupFailed"
               /\ errInfo' = <<db_server.code>>
               /\ yielded' = PortNone /\ bodyExc' = "none"
               /\ ~Has(calls', "yield") /\ ~Has(calls', "terminate") /\ ~Has(calls', "kill")
               /\ db_server' = db_server /\ db_server.sigs = <<>>
            \/ /\ db_server.state = "running"
               /\ pc' = "body"
               /\ yielded' = db_server.port /\ yielded' = port
               /\ outcome' = "none"
            \/ /\ db_server.state = "running"
               /\ pc' = "done"
               /\ outcome' = "KeyboardInterrupt"
               /\ yielded' = PortNone]_vars
    /\ [](outcome = "ServiceStartupFailed" =>
            (pc = "done" /\ ~Entered /\ db_server.exitedIn = "startup_wait"))

\* C9 witness: the process exited with code 1 during the startup wait and
\* in_subprocess has raised.
C9_Witness ==
    /\ pc = "done" /\ outcome = "ServiceStartupFailed"
    /\ db_server.exitedIn = "startup_wait" /\ errInfo = <<1>>

\* C10: control leaves the teardown wait either because the process has
\* exited, or, while it still runs, by KeyboardInterrupt: then kill() is
\* called before the raise, SIGKILL is sent, and KeyboardInterrupt is what
\* propagates, whatever the body had raised.
C10_CancelledTeardownKillsThenRaises ==
    [][(pc = "teardown_wait" /\ pc' = "done") =>
         \/ /\ db_server.state = "exited"
            /\ outcome' = Propagated
            /\ ~Has(calls', "kill")
         \/ /\ db_server.state = "running"
            /\ outcome' = "KeyboardInterrupt"
            /\ LastN(calls', 3) = <<"wait", "kill", "raise">>
            /\ LastN(db_server'.sigs, 2) = <<"SIGTERM", "SIGKILL">>]_vars

\* C10 witness: the body raised, the teardown wait was interrupted, and the
\* scope was left with KeyboardInterrupt after the kill.
C10_Witness ==
    /\ pc = "done" /\ bodyExc = "BodyError" /\ outcome = "KeyboardInterrupt"
    /\ Has(calls, "kill") /\ Has(db_server.sigs, "SIGKILL")

(***************************************************************************)
(* Properties of patched_into_boto3.                                       *)
(***************************************************************************)
\* C7: a handle requested in the body of a patched_into_boto3 scope that
\* has a software path is a real one whose endpoint_url is
\* http://localhost:<port> and whose use_ssl is False, <port> being the port
\* yielded by the scope's in_subprocess, whatever the caller passed; its
\* other arguments are the caller's.  Outside the scope body no handlers of
\* the scope are registered and a request is answered by boto3 itself.
C7_RequestsRedirectedInScope ==
    /\ (lastHandle.active /\ mode = "patched") =>
          /\ lastHandle.via = "real"
          /\ lastHandle.args.endpoint_url = LocalUrl(db_server.port)
          /\ lastHandle.args.use_ssl = "False"
          /\ db_server.port = yielded /\ Entered
          /\ "region_name" \in DOMAIN lastHandle.args =>
                lastHandle.args.region_name = CallerValue.region_name
    /\ (pc = "body" /\ mode = "patched") => registry = EnterHandlers("real", yielded)
    /\ pc # "body" => registry = NoRegistry
    /\ (lastHandle.via # "none" /\ ~lastHandle.active) =>
          (lastHandle.via = "boto3" /\ lastHandle.args \in Kwargs)

\* C7 witness: in the scope body a client was requested with the caller's
\* own endpoint_url and use_ssl.
C7_Witness ==
    /\ lastHandle.active /\ mode = "patched" /\ lastHandle.kind = "client"
    /\ lastHandle.args = [endpoint_url |-> LocalUrl(yielded), use_ssl |-> "False"]
    /\ yielded = DefaultFirst + 1

(***************************************************************************)
(* Properties of recreate_through and fresh_test_tables.                   *)
(***************************************************************************)
IsPrefix(a, b) == Len(a) <= Len(b) /\ SubSeq(b, 1, Len(a)) = a
\* position of the first call `c` on table n, 0 if there is none
FirstCall(cs, c, n) ==
    IF \E i \in 1 .. Len(cs) : cs[i].call = c /\ cs[i].table = n
    THEN CHOOSE i \in 1 .. Len(cs) :
            /\ cs[i].call = c /\ cs[i].table = n
            /\ \A j \in 1 .. (i - 1) : ~(cs[j].call = c /\ cs[j].table = n)
    ELSE 0
RECURSIVE DefinitionCalls(_, _, _)
\* for each definition from position i on: a delete_table when its name is in
\* `fetched`, then one create_table with its Properties
DefinitionCalls(ts, i, fetched) ==
    IF i > Len(ts) THEN <<>>
    ELSE (IF ts[i].Properties.TableName \in fetched
          THEN <<Call("delete_table", ts[i].Properties.TableName, NoProps, <<>>)>>
          ELSE <<>>)
         \o <<Call("create_table", ts[i].Properties.TableName, ts[i].Properties, <<>>)>>
         \o DefinitionCalls(ts, i + 1, fetched)
\* the rows fixture data holds for table n
RowsOf(fx, n) ==
    IF fx.given /\ \E i \in 1 .. Len(fx.dict) : fx.dict[i][1] = n
    THEN (CHOOSE e \in Elems(fx.dict) : e[1] = n)[2]
    ELSE <<>>

\* C4 as claimed: recreate_through on a client whose endpoint does not
\* target localhost fails its assertion and makes no call to the client.
C4_NonLocalClientRejected ==
    (op = "recreate_through" /\ client.target # "localhost") =>
        (tOutcome = "AssertionError" /\ ddbCalls = <<>>)

\* C5: recreate_through on a client that passes the assertion calls
\* list_tables once, first; the calls that follow are, for the table
\* definitions in description order, a delete_table exactly when the name is
\* in the fetched list and then one create_table with the definition's
\* Properties (up to the first call that fails, if one does).  When it
\* completes, every defined table exists with its declared Properties, every
\* defined table that was in the fetched list was deleted before it was
\* created, and the table list is the fetched names with the defined names.
C5_RecreateThroughCalls ==
    (op = "recreate_through" /\ IsLocalEndpoint(client)) =>
        LET ts == Tables(resources)
            expected == <<Call("list_tables", "", NoProps, <<>>)>>
                          \o DefinitionCalls(ts, 1, existing_tables)
        IN  /\ IsPrefix(ddbCalls, expected)
            /\ Len(ddbCalls) >= 1
            /\ tOutcome = "ok" =>
                 /\ ddbCalls = expected
                 /\ \A n \in DefinedNames(resources) :
                      /\ db[n].exists
                      /\ \E i \in 1 .. Len(ts) : db[n].props = ts[i].Properties
                      /\ n \in existing_tables =>
                           /\ FirstCall(ddbCalls, "delete_table", n) > 0
                           /\ FirstCall(ddbCalls, "delete_table", n)
                                < FirstCall(ddbCalls, "create_table", n)
                 /\ ListTables(db) = existing_tables \cup DefinedNames(resources)
            /\ tOutcome # "ok" => tOutcome \in {"ResourceInUseException", "ServiceError"}

\* C5 witness: definitions Users and Orders with Users existing: delete
\* Users, create Users, create Orders, and both tables exist.
C5_Witness ==
    /\ op = "recreate_through" /\ tOutcome = "ok"
    /\ existing_tables = {"Users"}
    /\ Len(resources) = 2 /\ Len(Tables(resources)) = 2
    /\ [i \in 1 .. Len(ddbCalls) |-> <<ddbCalls[i].call, ddbCalls[i].table>>]
         = << <<"list_tables", "">>, <<"delete_table", "Users">>,
              <<"create_table", "Users">>, <<"create_table", "Orders">> >>
    /\ ListTables(db) = {"Users", "Orders"}

\* C6: after fresh_test_tables has returned, every table of the schema holds
\* exactly the rows the fixture data gives for it, each once (no row when the
\* fixture data does not name the table), whatever the tables held before:
\* rows of an earlier call or of a test are gone, and a second call with the
\* same fixture data leaves the same contents.
C6_FreshTestTablesResets ==
    (op = "fresh_test_tables" /\ tOutcome = "ok") =>
        \A n \in DefinedNames(resources) :
            /\ db[n].exists
            /\ db[n].items = Elems(RowsOf(fixture_data, n))
            /\ Cardinality(db[n].items) = Len(RowsOf(fixture_data, n))

\* C6 witness: Users held rows before the call, was recreated, and now holds
\* exactly the one fixture row.
C6_Witness ==
    /\ op = "fresh_test_tables" /\ tOutcome = "ok" /\ rowsBefore
    /\ fixture_data = [given |-> TRUE, dict |-> << <<"Users", <<[id |-> "1", name |-> "Ann"]>> >> >>]
    /\ "Users" \in DefinedNames(resources)
    /\ db["Users"].items = {[id |-> "1", name |-> "Ann"]}

(***************************************************************************)
(* Properties of entering patched_into_boto3.                              *)
(***************************************************************************)
\* a step that enters patched_into_boto3
PatchedEntered == pc = "idle" /\ pc' # "idle" /\ mode' \in {"patched", "missing"}

\* C11: entering patched_into_boto3 while patching is not engaged, with any
\* path, port_range and on_server_missing, raises the "engage_patching() MUST
\* be called" error at once: the registry is as it was, no port is probed, no
\* process is spawned and nothing is yielded.
C11_NotEngagedFails ==
    [][(PatchedEntered /\ ~engaged) =>
          /\ pc' = "done" /\ outcome' = "PatchingNotEngaged"
          /\ registry' = registry
          /\ probes' = <<>> /\ db_server' = NoProc /\ yielded' = PortNone
          /\ ~Has(calls', "Popen") /\ ~Has(calls', "enter_handlers")]_vars

\* C11 witness: the error was raised for a call that had a path and a handler.
C11_Witness ==
    /\ pc = "done" /\ outcome = "PatchingNotEngaged" /\ ~engaged
    /\ dynamodblocal_path = "path" /\ on_server_missing = "returns"

\* C12 as claimed: patched_into_boto3 entered with neither a path nor a
\* handler has failed with NoServiceConfigured, no handlers registered and no
\* process spawned.
C12_AsClaimed ==
    (pc = "done" /\ mode = "patched" /\ dynamodblocal_path = "None"
       /\ on_server_missing = "None") =>
        (outcome = "NoServiceConfigured" /\ registry = NoRegistry /\ db_server = NoProc)

\* C12, amended: with patching engaged, entering patched_into_boto3 with
\* neither a path nor a handler raises NoServiceConfigured at once, the
\* registry as it was, no port probed and no process spawned.  (Without
\* patching engaged the same call fails with PatchingNotEngaged instead.)
C12_NoServiceConfigured ==
    [][(PatchedEntered /\ dynamodblocal_path' = "None" /\ on_server_missing' = "None") =>
          /\ pc' = "done"
          /\ outcome' = (IF engaged THEN "NoServiceConfigured" ELSE "PatchingNotEngaged")
          /\ registry' = registry
          /\ probes' = <<>> /\ db_server' = NoProc /\ yielded' = PortNone
          /\ ~Has(calls', "Popen") /\ ~Has(calls', "enter_handlers")]_vars

\* C12 witness: with patching engaged the call has raised NoServiceConfigured.
C12_Witness ==
    /\ pc = "done" /\ outcome = "NoServiceConfigured" /\ engaged
    /\ dynamodblocal_path = "None" /\ on_server_missing = "None"

\* C13: in a patched_into_boto3 scope entered with no path and a handler,
\* no port is probed and no process is spawned; entering and leaving the
\* scope make no call of on_server_missing; each request for a client or
\* resource handle made in the scope body calls on_server_missing once, then,
\* and what the request gives is what the handler gave: its return value or
\* the exception it raised.
C13_HandlerCalledPerRequest ==
    [][((mode' = "missing" \/ mode = "missing") /\ pc' # "idle") =>
          /\ db_server' = NoProc /\ probes' = <<>> /\ ~Has(calls', "Popen")
          /\ IF pc = "body" /\ pc' = "body"
             THEN /\ calls' = Append(calls, "on_server_missing")
                  /\ lastHandle'.active
                  /\ lastHandle'.via = (IF on_server_missing = "raises"
                                        THEN "on_server_missing raised"
                                        ELSE "on_server_missing returned")
             ELSE Count(calls', "on_server_missing")
                    = (IF pc = "idle" THEN 0 ELSE Count(calls, "on_server_missing"))]_vars

\* C13 witness: the second request in the scope body was answered by a
\* handler that raises, after two calls of the handler.
C13_Witness ==
    /\ mode = "missing" /\ pc = "body" /\ on_server_missing = "raises"
    /\ lastHandle.active /\ lastHandle.via = "on_server_missing raised"
    /\ calls = <<"enter_handlers", "yield", "on_server_missing", "on_server_missing">>

(***************************************************************************)
(* Properties of the fixture rows, failures and untouched tables.          *)
(***************************************************************************)
\* the dictionary fresh_test_tables iterates: `fixture_data or ()`
FixtureDict(fx) == IF fx.given THEN fx.dict ELSE <<>>
\* the table names a fixture dictionary has as keys
Named(dict) == {dict[i][1] : i \in 1 .. Len(dict)}
DupKeys(rw) == \E i, j \in 1 .. Len(rw) : i # j /\ rw[i].id = rw[j].id
\* whether the entry i of the dictionary holds rows the instance rejects, the
\* tables `avail` being there
Rejected(dict, i, avail) ==
    Len(dict[i][2]) > 0 /\ (dict[i][1] \notin avail \/ DupKeys(dict[i][2]))
\* the first such entry, 0 if there is none
FirstRejected(dict, avail) ==
    IF \E i \in 1 .. Len(dict) : Rejected(dict, i, avail)
    THEN CHOOSE i \in 1 .. Len(dict) :
            Rejected(dict, i, avail) /\ \A j \in 1 .. (i - 1) : ~Rejected(dict, j, avail)
    ELSE 0
\* no two table definitions of the description have the same TableName
DistinctDefinitions(res) ==
    \A i, j \in 1 .. Len(Tables(res)) :
        Tables(res)[i].Properties.TableName = Tables(res)[j].Properties.TableName => i = j

\* C14 as claimed: after fresh_test_tables, tables of the schema that the
\* fixture data does not name hold no row, and when the fixture data names a
\* table that is not in the schema the call has failed with the client's
\* table-not-found error.  (Calls that failed for another reason are left
\* out: descriptions with a repeated table name, rows sharing a key, a
\* failing service.)
C14_AsClaimed ==
    (/\ op = "fresh_test_tables" /\ IsLocalEndpoint(client)
     /\ DistinctDefinitions(resources) /\ tOutcome # "ServiceError"
     /\ \A i \in 1 .. Len(FixtureDict(fixture_data)) : ~DupKeys(FixtureDict(fixture_data)[i][2])) =>
        /\ tOutcome = "ok" =>
              \A n \in DefinedNames(resources) \ Named(FixtureDict(fixture_data)) : db[n].items = {}
        /\ (Named(FixtureDict(fixture_data)) \ DefinedNames(resources) # {}) =>
              tOutcome = "ResourceNotFoundException"

\* C14, amended: when the tables have been recreated, the fixture entries
\* are written in dictionary order up to the first entry with rows that the
\* instance rejects.  An entry with rows for a table that is neither in the
\* schema nor in the instance fails the call with the client's
\* ResourceNotFoundException, the entries before it written and none after
\* it; an entry naming a table outside the schema that the instance does
\* hold has its rows written to that table, and an entry without rows makes
\* no request and no error.  No row is inserted into a table the fixture
\* data does not name, and no table is created for a name outside the schema.
C14_FixtureRowsWritten ==
    [][(/\ op = "none" /\ op' = "fresh_test_tables" /\ IsLocalEndpoint(client)
        /\ tOutcome' \notin {"ResourceInUseException", "ServiceError"}) =>
          LET dict == FixtureDict(fixture_data')
              avail == ListTables(db) \cup DefinedNames(resources)
              k == FirstRejected(dict, avail)
              done == IF k = 0 THEN Len(dict) ELSE k - 1
              base(n) == IF n \in DefinedNames(resources) THEN {} ELSE db[n].items
              written(n) == IF \E i \in 1 .. done : dict[i][1] = n
                            THEN Elems(dict[CHOOSE i \in 1 .. done : dict[i][1] = n][2])
                            ELSE {}
          IN  /\ tOutcome' = (IF k = 0 THEN "ok"
                              ELSE IF dict[k][1] \notin avail THEN "ResourceNotFoundException"
                              ELSE "ValidationException")
              /\ \A n \in TableNames :
                    /\ n \notin Named(dict) => db'[n].items = base(n)
                    /\ db'[n].items = {it \in base(n) : \A r \in written(n) : r.id # it.id}
                                         \cup written(n)
                    /\ n \notin avail => db'[n] = Absent]_vars

\* C14 witness: the schema has Users only and the instance no Orders table;
\* the fixture data gives a row for Users, then one for Orders: the Users
\* row is written and the call fails with ResourceNotFoundException.
C14_Witness ==
    /\ op = "fresh_test_tables" /\ tOutcome = "ResourceNotFoundException"
    /\ DefinedNames(resources) = {"Users"}
    /\ fixture_data = [given |-> TRUE,
                       dict |-> << <<"Users", <<[id |-> "1", name |-> "Ann"]>> >>,
                                   <<"Orders", <<[id |-> "2", name |-> "Bob"]>> >> >>]
    /\ db["Users"].items = {[id |-> "1", name |-> "Ann"]}
    /\ ~db["Orders"].exists

RECURSIVE ApplyCalls(_, _, _)
\* the tables of an instance d after the calls cs[i], cs[i+1], ... were served
ApplyCalls(d, cs, i) ==
    IF i > Len(cs) THEN d
    ELSE ApplyCalls(CASE cs[i].call = "delete_table" -> DeleteTable(d, cs[i].table).db
                      [] cs[i].call = "create_table" -> CreateTable(d, cs[i].props).db
                      [] OTHER -> d,
                    cs, i + 1)
Front(c) == SubSeq(c, 1, Len(c) - 1)

\* C19: when a delete_table or create_table call of recreate_through fails
\* (the table is in use, the service fails), recreate_through, and
\* fresh_test_tables around it, end with that error at once: the calls made
\* are the calls of C5 up to the failing one, which is the last call; the
\* instance is as the calls before the failing one left it, so the
\* definitions before the failing one are recreated, later ones are not
\* touched; fresh_test_tables has written no fixture row.
C19_RecreateFailurePropagates ==
    [][(/\ op = "none" /\ op' \in {"recreate_through", "fresh_test_tables"}
        /\ tOutcome' \in {"ResourceInUseException", "ServiceError"}) =>
          LET expected == <<Call("list_tables", "", NoProps, <<>>)>>
                            \o DefinitionCalls(Tables(resources), 1, existing_tables')
              last == ddbCalls'[Len(ddbCalls')]
          IN  /\ Len(ddbCalls') >= 2
              /\ IsPrefix(ddbCalls', expected)
              /\ last.call \in {"delete_table", "create_table"}
              /\ tOutcome' = "ResourceInUseException" =>
                    (last.call = "create_table"
                       /\ ApplyCalls(db, Front(ddbCalls'), 1)[last.table].exists)
              /\ db' = ApplyCalls(db, Front(ddbCalls'), 1)
              /\ \A i \in 1 .. Len(ddbCalls') : ddbCalls'[i].call # "batch_write_item"
              /\ \A n \in TableNames :
                    db'[n].items \subseteq db[n].items]_vars

\* C19 witness: definitions Users and Orders with Orders existing;
\* fresh_test_tables with a row for Users: Users is created, the delete of
\* Orders fails, Orders is left, and Users holds no row.
C19_Witness ==
    /\ op = "fresh_test_tables" /\ tOutcome = "ServiceError"
    /\ existing_tables = {"Orders"}
    /\ [i \in 1 .. Len(ddbCalls) |-> <<ddbCalls[i].call, ddbCalls[i].table>>]
         = << <<"list_tables", "">>, <<"create_table", "Users">>, <<"delete_table", "Orders">> >>
    /\ fixture_data = [given |-> TRUE, dict |-> << <<"Users", <<[id |-> "1", name |-> "Ann"]>> >> >>]
    /\ db["Users"].exists /\ db["Users"].items = {} /\ db["Orders"].exists

\* the names of the resources of the description whose Type is AWS::DynamoDB::Table
TableResourceNames(res) ==
    {res[i].Properties.TableName : i \in {j \in 1 .. Len(res) : res[j].Type = "AWS::DynamoDB::Table"}}

\* C20: a table whose name is not the TableName of an AWS::DynamoDB::Table
\* resource of the description (a table the instance holds beside the
\* schema, the name a resource of another type carries) gets no
\* delete_table and no create_table call from recreate_through or from
\* fresh_test_tables; recreate_through leaves it as it was, and so does
\* fresh_test_tables but for fixture rows written to it when the fixture
\* data names it.
C20_OtherTablesUntouched ==
    [][(op = "none" /\ op' \in {"recreate_through", "fresh_test_tables"}) =>
          \A n \in TableNames \ TableResourceNames(resources) :
              /\ \A i \in 1 .. Len(ddbCalls') :
                    ddbCalls'[i].call \in {"delete_table", "create_table"} => ddbCalls'[i].table # n
              /\ db'[n].exists = db[n].exists /\ db'[n].props = db[n].props
              /\ (op' = "recreate_through" \/ n \notin Named(FixtureDict(fixture_data'))) =>
                    db'[n] = db[n]]_vars

\* C20 witness: the description defines the table Users and a queue whose
\* properties carry the name Orders; the instance holds an Orders table with
\* a row; recreate_through has recreated Users and Orders still has its row.
C20_Witness ==
    /\ op = "recreate_through" /\ tOutcome = "ok"
    /\ TableResourceNames(resources) = {"Users"} /\ Len(resources) = 2
    /\ \E i \in 1 .. Len(resources) : resources[i].Type = "AWS::SQS::Queue"
    /\ db["Orders"].exists /\ db["Orders"].items # {}
    /\ \E i \in 1 .. Len(ddbCalls) : ddbCalls[i].call = "create_table" /\ ddbCalls[i].table = "Users"

(***************************************************************************)
(* Further properties of in_subprocess and of patched_into_boto3.          *)
(***************************************************************************)
\* C16 as claimed: once in_subprocess has spawned the process, control
\* leaves in_subprocess only with the process exited or sent SIGTERM or
\* SIGKILL.
C16_ProcessAlwaysReleased ==
    (pc = "done" /\ db_server.state # "none") =>
        \/ db_server.state = "exited"
        \/ Has(db_server.sigs, "SIGTERM")
        \/ Has(db_server.sigs, "SIGKILL")

\* C17 as claimed: a probe that ends otherwise than by a refused connection
\* never selects its port and never ends in_subprocess: the next candidate
\* is probed, and after the last candidate the no-port error is raised.
C17_NonRefusalSkipsPort ==
    \A i \in 1 .. Len(probes) :
        probes[i][2] # "ConnectionRefusedError" =>
            /\ db_server.state # "none" => db_server.port # probes[i][1]
            /\ (pc = "done" /\ i = Len(probes)) =>
                  (i = Len(eff_range.ports) /\ outcome = "NoPortAvailable")

\* first position of e in the sequence c, 0 if it is not in it
Pos(c, e) ==
    IF Has(c, e) THEN CHOOSE i \in 1 .. Len(c) : c[i] = e /\ \A j \in 1 .. (i - 1) : c[j] # e
    ELSE 0

\* C18: in patched_into_boto3 with a path, the handlers are registered
\* only while the body runs: after the startup wait of the process has timed
\* out (the process was launched, had not exited then and has been sent no
\* signal), and the handlers answer with the port of that process; when the
\* body ends, returning or raising, the handlers are removed before
\* terminate() is called.
C18_RegistrationNestedInProcessScope ==
    /\ registry.kind = "real" =>
          /\ mode = "patched" /\ pc = "body"
          /\ db_server.state # "none" /\ db_server.exitedIn # "startup_wait"
          /\ db_server.sigs = <<>>
          /\ registry.port = db_server.port
          /\ 0 < Pos(calls, "Popen") /\ Pos(calls, "Popen") < Pos(calls, "wait(0.1)")
          /\ Pos(calls, "wait(0.1)") < Pos(calls, "enter_handlers")
          /\ ~Has(calls, "exit_handlers") /\ ~Has(calls, "terminate") /\ ~Has(calls, "kill")
    /\ (mode = "patched" /\ (Has(calls, "terminate") \/ Has(calls, "kill"))) =>
          /\ registry = NoRegistry
          /\ 0 < Pos(calls, "exit_handlers")
          /\ Pos(calls, "exit_handlers") < Pos(calls, "terminate")
    /\ (mode = "patched" /\ pc \in {"probe", "startup_wait"}) => registry = NoRegistry

\* C18 witness: the body of a patched scope raised; the handlers are gone
\* and the process, still running, has been sent SIGTERM.
C18_Witness ==
    /\ mode = "patched" /\ pc = "teardown_wait" /\ bodyExc = "BodyError"
    /\ registry = NoRegistry
    /\ db_server.state = "running" /\ db_server.sigs = <<"SIGTERM">>
    /\ LastN(calls, 2) = <<"exit_handlers", "terminate">>

(***************************************************************************)
(* Properties of in_subprocess entered by two test runs.                   *)
(***************************************************************************)
\* C15 as claimed: two test runs whose scope bodies run at the same time
\* were yielded different ports.
C15_ConcurrentScopesHoldDistinctPorts ==
    \A a, b \in TestRuns :
        (a # b /\ scopes[a].pc = "body" /\ scopes[b].pc = "body") =>
            scopes[a].yielded # scopes[b].yielded

====
